---- MODULE Spec2Model ----
(***************************************************************************)
(* Model of the fashion-app API: the credential verifier and the profile   *)
(* store adapter (auth.py), the route handlers of /api/auth                *)
(* (routes/auth.py) and the category registry (categories.py).             *)
(*                                                                         *)
(* A request occupies a slot; it advances one remote call at a time, so    *)
(* the calls of two requests interleave at the remote services.  Every     *)
(* remote call may raise.  The user_profiles table is a sequence of rows   *)
(* whose id column is a unique key.                                        *)
(***************************************************************************)
EXTENDS Integers, Sequences, FiniteSets, TLC

VARIABLES
    store,        \* the user_profiles table: a sequence of rows
    kind,         \* per slot: the route or function the request runs
    pc,           \* per slot: position of the request in its handler
    inp,          \* per slot: the request's input
    cur,          \* per slot: current_user, the verified identity
    args,         \* per slot: arguments of the create_user_profile call
    resp,         \* per slot: the response (status 0 while pending)
    calls,        \* per slot: remote calls issued by the request, in order
    nreq,         \* number of requests started
    category,     \* is_valid_category: first argument
    subcategory,  \* is_valid_category: second argument
    valid         \* is_valid_category: result (None before the call)

vars == <<store, kind, pc, inp, cur, args, resp, calls, nreq,
          category, subcategory, valid>>

reqvars == <<store, kind, pc, inp, cur, args, resp, calls, nreq>>
catvars == <<category, subcategory, valid>>

-----------------------------------------------------------------------------
(* Bounds *)

MaxRequests == 2

Slots == {"r1", "r2"}

-----------------------------------------------------------------------------
(* Python values: None, str, int, bool, list and dict, with truthiness.    *)

None == [t |-> "None"]
Str(s) == [t |-> "str", v |-> s]
PyInt(i) == [t |-> "int", v |-> i]
Bool(b) == [t |-> "bool", v |-> b]
List(q) == [t |-> "list", v |-> q]
Dict(d) == [t |-> "dict", v |-> d]

EmptyDict == [k \in {} |-> None]

\* bool(x)
Truthy(x) ==
    CASE x.t = "None" -> FALSE
      [] x.t = "str"  -> x.v # ""
      [] x.t = "int"  -> x.v # 0
      [] x.t = "bool" -> x.v
      [] x.t = "list" -> x.v # <<>>
      [] x.t = "dict" -> DOMAIN x.v # {}

\* a or b
PyOr(a, b) == IF Truthy(a) THEN a ELSE b

\* d.get(k)
DictGet(d, k) == IF k \in DOMAIN d THEN d[k] ELSE None

-----------------------------------------------------------------------------
(* The identity service's users.                                           *)

Users == {"u1", "u2"}

EmailOf(u) == IF u = "u1" THEN "alice@x.io" ELSE "bob@x.io"
Emails == {EmailOf(u) : u \in Users}
UserOfEmail(e) == CHOOSE u \in Users : EmailOf(u) = e

\* email.split("@")[0]
LocalPart(e) ==
    CASE e = "alice@x.io" -> "alice"
      [] e = "bob@x.io"   -> "bob"

\* u1 signed in with Google (full_name and avatar_url in the metadata),
\* u2 with email and password (empty metadata).
UserMetadata(u) ==
    IF u = "u1"
    THEN [full_name |-> Str("Alice A"), avatar_url |-> Str("a.png")]
    ELSE EmptyDict

\* response.user.model_dump()
UserDump(u) == [id |-> u, email |-> EmailOf(u), user_metadata |-> UserMetadata(u)]

NoToken == "<no Authorization header>"
TokenOf(u) == IF u = "u1" THEN "tok-u1" ELSE "tok-u2"
Tokens == {NoToken, "garbage"} \cup {TokenOf(u) : u \in Users}
TokenValid(tok) == \E u \in Users : TokenOf(u) = tok
UserOfToken(tok) == CHOOSE u \in Users : TokenOf(u) = tok

\* What a call to the identity service can answer.
\* "ok_nosession": a user without a session (sign-up awaiting confirmation).
IdpOutcomes == {"ok", "nouser", "raise"}
SessionOutcomes == {"ok", "ok_nosession", "nouser", "raise"}
IsOk(o) == o \in {"ok", "ok_nosession"}
IdpErrorText == "AuthApiError: invalid or expired JWT / service unavailable"
StoreOutcomes == {"ok", "raise"}
StoreErrorText == "APIError: connection failed"
DuplicateKeyText == "APIError: duplicate key value violates unique constraint user_profiles_pkey"

\* supabase.auth.get_user(token): a user only for a valid token.
GetUserOutcomes(tok) ==
    IF TokenValid(tok) THEN IdpOutcomes ELSE {"nouser", "raise"}

\* supabase.auth.sign_in_with_password: a user only for the right password.
SignInOutcomes(password) ==
    IF password = "pw" THEN SessionOutcomes ELSE {"nouser", "raise"}

\* auth_response.session.model_dump() if auth_response.session else None
SessionDump(u, o) ==
    IF o = "ok" THEN Dict([access_token |-> Str(TokenOf(u))]) ELSE None

-----------------------------------------------------------------------------
(* The user_profiles table.                                                *)

allowed_fields ==
    {"display_name", "avatar_url", "body_type", "height_cm", "weight_kg",
     "gender_style", "notes", "typical_schedule", "default_occasions",
     "works_from_home", "has_dress_code", "dress_code_notes",
     "sass_level", "location", "body_reference_photos"}

Columns == {"id", "email"} \cup allowed_fields

\* select("*").eq("id", user_id): result.data
Select(table, user_id) == SelectSeq(table, LAMBDA row : row.id = Str(user_id))

HasRow(table, user_id) == Select(table, user_id) # <<>>

\* The row the store keeps for an inserted record: absent columns are NULL.
NewRow(data) == [c \in Columns |-> IF c \in DOMAIN data THEN data[c] ELSE None]

\* insert(profile_data): the id column is a unique key.
InsertRejected(table, data) ==
    \E i \in 1..Len(table) : table[i].id = data.id

Insert(table, data) == Append(table, NewRow(data))

\* update(update_data).eq("id", user_id): the table afterwards.
UpdateRow(row, data) ==
    [c \in DOMAIN row |-> IF c \in DOMAIN data THEN data[c] ELSE row[c]]

RECURSIVE Update(_, _, _)
Update(table, data, user_id) ==
    IF table = <<>> THEN <<>>
    ELSE <<IF Head(table).id = Str(user_id)
           THEN UpdateRow(Head(table), data) ELSE Head(table)>>
         \o Update(Tail(table), data, user_id)

-----------------------------------------------------------------------------
(* auth.py                                                                 *)

\* What a function call yields: a returned value, or a raised HTTPException.
Return(value) == [raised |-> FALSE, status |-> 200, detail |-> <<>>, value |-> value]
Raise(status, detail) == [raised |-> TRUE, status |-> status, detail |-> detail, value |-> None]

\* security = HTTPBearer(): with no bearer credentials in the request the
\* scheme itself raises and the dependency is never called.  The status is
\* 403 or 401 depending on the framework release.
BearerRejectStatuses == {401, 403}

\* Faulty variant of get_current_user: fails open, trusting the token's
\* subject when the identity service raises.
get_current_user_failopen(token, o) ==
    CASE o = "raise"  -> IF TokenValid(token)
                         THEN Return(Dict(UserDump(UserOfToken(token))))
                         ELSE Raise(401, <<"Could not validate credentials: ", IdpErrorText>>)
      [] o = "nouser" -> Raise(401, <<"Could not validate credentials: ",
                                      "401: Invalid authentication credentials">>)
      [] o = "ok"     -> Return(Dict(UserDump(UserOfToken(token))))

\* get_current_user(credentials), the identity service answering o.
\* The HTTPException raised for a missing user is caught by the function's
\* own except clause and wrapped again.
get_current_user(token, o) ==
    CASE o = "raise"  -> Raise(401, <<"Could not validate credentials: ", IdpErrorText>>)
      [] o = "nouser" -> Raise(401, <<"Could not validate credentials: ",
                                      "401: Invalid authentication credentials">>)
      [] o = "ok"     -> Return(Dict(UserDump(UserOfToken(token))))

\* Faulty variant of get_current_user_optional: lets a verification error
\* escape as 401.
get_current_user_optional_raising(token, o) ==
    IF token = NoToken THEN Return(None)
    ELSE CASE o = "raise"  -> Raise(401, <<"Could not validate credentials: ", IdpErrorText>>)
           [] o = "nouser" -> Return(None)
           [] o = "ok"     -> Return(Dict(UserDump(UserOfToken(token))))

\* get_current_user_optional(credentials)
get_current_user_optional(token, o) ==
    IF token = NoToken THEN Return(None)
    ELSE CASE o = "raise"  -> Return(None)
           [] o = "nouser" -> Return(None)
           [] o = "ok"     -> Return(Dict(UserDump(UserOfToken(token))))

\* get_user_profile(user_id), the store answering o: an error is printed
\* and reported as None.
get_user_profile(table, user_id, o) ==
    IF o = "raise" THEN None
    ELSE LET data == Select(table, user_id)
         IN  IF data # <<>> THEN Dict(data[1]) ELSE None

\* profile_data of create_user_profile
profile_data(a) ==
    [id           |-> Str(a.user_id),
     email        |-> Str(a.email),
     display_name |-> PyOr(a.display_name, Str(LocalPart(a.email))),
     avatar_url   |-> a.avatar_url,
     sass_level   |-> PyInt(3)]

\* Faulty variant of the existence check: answers with the record built
\* from this call's arguments instead of the stored one.
create_user_profile_check_fresh(table, a, o) ==
    LET existing == get_user_profile(table, a.user_id, o)
    IN  [done  |-> Truthy(existing),
         value |-> IF Truthy(existing) THEN Dict(NewRow(profile_data(a)))
                   ELSE existing]

\* create_user_profile, first half: the existence check.  done says
\* whether the function returns here.
create_user_profile_check(table, a, o) ==
    LET existing == get_user_profile(table, a.user_id, o)
    IN  [done |-> Truthy(existing), value |-> existing]

\* Faulty variant of the insert: a rejected insert answers with the stored
\* profile instead of raising.
create_user_profile_insert_lenient(table, a, o) ==
    IF o = "raise"
    THEN [res |-> Raise(500, <<"Failed to create user profile: ", StoreErrorText>>),
          table |-> table]
    ELSE IF InsertRejected(table, profile_data(a))
    THEN [res |-> Return(Dict(Select(table, a.user_id)[1])), table |-> table]
    ELSE LET after == Insert(table, profile_data(a))
         IN  [res |-> Return(Dict(after[Len(after)])), table |-> after]

\* create_user_profile, second half: the insert, with the table afterwards.
create_user_profile_insert(table, a, o) ==
    IF o = "raise"
    THEN [res |-> Raise(500, <<"Failed to create user profile: ", StoreErrorText>>),
          table |-> table]
    ELSE IF InsertRejected(table, profile_data(a))
    THEN [res |-> Raise(500, <<"Failed to create user profile: ", DuplicateKeyText>>),
          table |-> table]
    ELSE LET after == Insert(table, profile_data(a))
         IN  [res |-> Return(Dict(after[Len(after)])), table |-> after]

\* Faulty variant of update_data: no allowlist filter.
update_data_unfiltered(updates) == updates

\* update_data of update_user_profile: the allowlist filter
update_data(updates) ==
    [k \in (DOMAIN updates) \cap allowed_fields |-> updates[k]]

\* Faulty variant of update_user_profile: no check for an empty update_data.
update_user_profile_unchecked(table, user_id, updates, o) ==
    LET data == update_data(updates)
    IN  IF o = "raise"
        THEN [res |-> Raise(500, <<"Failed to update profile: ", StoreErrorText>>),
              table |-> table, called |-> TRUE]
        ELSE LET after == Update(table, data, user_id)
                 rows  == Select(after, user_id)
             IN  [res |-> Return(IF rows # <<>> THEN Dict(rows[1]) ELSE None),
                  table |-> after, called |-> TRUE]

\* update_user_profile(user_id, updates), the store answering o; called
\* says whether the store's update was issued.
update_user_profile(table, user_id, updates, o) ==
    LET data == update_data(updates)
    IN  IF DOMAIN data = {}
        THEN [res |-> Raise(400, <<"No valid fields to update">>),
              table |-> table, called |-> FALSE]
        ELSE IF o = "raise"
        THEN [res |-> Raise(500, <<"Failed to update profile: ", StoreErrorText>>),
              table |-> table, called |-> TRUE]
        ELSE LET after == Update(table, data, user_id)
                 rows  == Select(after, user_id)
             IN  [res |-> Return(IF rows # <<>> THEN Dict(rows[1]) ELSE None),
                  table |-> after, called |-> TRUE]

-----------------------------------------------------------------------------
(* routes/auth.py: request models and response shaping                     *)

\* The fields of ProfileUpdateRequest.
ProfileUpdateRequestFields ==
    {"display_name", "avatar_url", "body_type", "height_cm", "weight_kg",
     "gender_style", "notes", "typical_schedule", "default_occasions",
     "works_from_home", "has_dress_code", "dress_code_notes",
     "sass_level", "location", "body_reference_photos"}

\* Parsing a JSON body into ProfileUpdateRequest: unknown keys are ignored,
\* missing fields are None.
ProfileUpdateRequest(raw) ==
    [f \in ProfileUpdateRequestFields |-> DictGet(raw, f)]

\* updates.model_dump(exclude_none=True)
model_dump_exclude_none(m) ==
    [f \in {g \in DOMAIN m : m[g] # None} |-> m[f]]

Pending == [status |-> 0, detail |-> <<>>, body |-> EmptyDict]
Success(body) == [status |-> 200, detail |-> <<>>, body |-> body]
Failure(res) == [status |-> res.status, detail |-> res.detail, body |-> EmptyDict]

\* signup_with_email: the answer to a failed sign_up (str(e) passed through).
signup_error(o) ==
    IF o = "raise" THEN Raise(400, <<IdpErrorText>>)
    ELSE Raise(400, <<"Signup failed">>)

\* Faulty variant of login_error: passes the identity service's message on.
login_error_verbose(o) ==
    IF o = "raise" THEN Raise(401, <<IdpErrorText>>)
    ELSE Raise(401, <<"Invalid credentials">>)

\* login_with_email: the answer to a failed sign_in_with_password.
login_error(o) ==
    IF o = "raise" THEN Raise(401, <<"Invalid email or password">>)
    ELSE Raise(401, <<"Invalid credentials">>)

\* Faulty variant of onboarding_status: completed requires all three steps.
onboarding_status_strict(profile) ==
    IF ~Truthy(profile)
    THEN [completed |-> FALSE,
          steps |-> [display_name |-> FALSE, body_photos |-> FALSE,
                     preferences |-> FALSE]]
    ELSE LET has_display_name == Truthy(DictGet(profile.v, "display_name"))
             has_body_photos  == Truthy(DictGet(profile.v, "body_reference_photos"))
             has_preferences  == Truthy(PyOr(DictGet(profile.v, "gender_style"),
                                             DictGet(profile.v, "location")))
         IN  [completed |-> has_display_name /\ has_body_photos /\ has_preferences,
              steps |-> [display_name |-> has_display_name,
                         body_photos  |-> has_body_photos,
                         preferences  |-> has_preferences],
              profile |-> profile]

\* check_onboarding_status: the response body derived from the profile.
onboarding_status(profile) ==
    IF ~Truthy(profile)
    THEN [completed |-> FALSE,
          steps |-> [display_name |-> FALSE, body_photos |-> FALSE,
                     preferences |-> FALSE]]
    ELSE LET has_display_name == Truthy(DictGet(profile.v, "display_name"))
             has_body_photos  == Truthy(DictGet(profile.v, "body_reference_photos"))
             has_preferences  == Truthy(PyOr(DictGet(profile.v, "gender_style"),
                                             DictGet(profile.v, "location")))
             completed        == has_display_name
         IN  [completed |-> completed,
              steps |-> [display_name |-> has_display_name,
                         body_photos  |-> has_body_photos,
                         preferences  |-> has_preferences],
              profile |-> profile]

-----------------------------------------------------------------------------
(* Requests                                                                *)

\* JSON bodies a client sends to PATCH /me, and payloads passed to
\* update_user_profile.
Payloads ==
    { EmptyDict,
      [id |-> Str("u2"), email |-> Str("evil@x.io")],
      [display_name |-> Str("Sam"), id |-> Str("u2")],
      [display_name |-> Str(""), location |-> Str("NYC"),
       body_reference_photos |-> List(<<"p1">>)] }

DisplayNames == {None, Str("Sam")}

BearerRoutes == {"logout", "oauth_callback", "get_me", "patch_me", "onboarding"}

Requests ==
         {[kind |-> "signup", email |-> e, display_name |-> d] :
              e \in Emails, d \in DisplayNames}
    \cup {[kind |-> "login", email |-> e, password |-> p] :
              e \in Emails, p \in {"pw", "wrong"}}
    \cup {[kind |-> k, token |-> t] :
              k \in BearerRoutes \ {"patch_me"}, t \in Tokens}
    \cup {[kind |-> "patch_me", token |-> t, json |-> b] :
              t \in Tokens, b \in Payloads}
    \cup {[kind |-> "update", user_id |-> u, updates |-> b] :
              u \in Users, b \in Payloads}
    \cup {[kind |-> "optional", token |-> t] : t \in Tokens}

FirstPc(k) ==
    CASE k = "signup"   -> "signup"
      [] k = "login"    -> "login"
      [] k = "update"   -> "update"
      [] k = "optional" -> "optional"
      [] OTHER          -> "auth"

BodyPc(k) ==
    CASE k = "logout"         -> "logout"
      [] k = "oauth_callback" -> "oauth_fetch"
      [] k = "get_me"         -> "me_fetch"
      [] k = "patch_me"       -> "patch"
      [] k = "onboarding"     -> "onboarding"

NoArgs == EmptyDict

\* The request issues the remote call op, which answers out.
Log(r, op, out) ==
    calls' = [calls EXCEPT ![r] = Append(@, [op |-> op, out |-> out])]

Finish(r, rsp) ==
    /\ pc' = [pc EXCEPT ![r] = "done"]
    /\ resp' = [resp EXCEPT ![r] = rsp]

Goto(r, p) ==
    /\ pc' = [pc EXCEPT ![r] = p]
    /\ UNCHANGED resp

Init ==
    /\ store = <<>>
    /\ kind = [r \in Slots |-> "idle"]
    /\ pc = [r \in Slots |-> "idle"]
    /\ inp = [r \in Slots |-> EmptyDict]
    /\ cur = [r \in Slots |-> None]
    /\ args = [r \in Slots |-> NoArgs]
    /\ resp = [r \in Slots |-> Pending]
    /\ calls = [r \in Slots |-> <<>>]
    /\ nreq = 0
    /\ category = "" /\ subcategory = None /\ valid = None

Free(r) == pc[r] \in {"idle", "done"}

\* A request arrives and is given the first free slot.
Start(r) ==
    /\ Free(r)
    /\ r = "r1" \/ ~Free("r1")
    /\ nreq < MaxRequests
    /\ \E q \in Requests :
         /\ kind' = [kind EXCEPT ![r] = q.kind]
         /\ inp' = [inp EXCEPT ![r] = q]
         /\ pc' = [pc EXCEPT ![r] = FirstPc(q.kind)]
    /\ cur' = [cur EXCEPT ![r] = None]
    /\ args' = [args EXCEPT ![r] = NoArgs]
    /\ resp' = [resp EXCEPT ![r] = Pending]
    /\ calls' = [calls EXCEPT ![r] = <<>>]
    /\ nreq' = nreq + 1
    /\ UNCHANGED <<store, catvars>>

\* Depends(get_current_user) of a bearer route.
Authenticate(r) ==
    /\ pc[r] = "auth"
    /\ IF inp[r].token = NoToken
       THEN /\ \E s \in BearerRejectStatuses :
                 Finish(r, Failure(Raise(s, <<"Not authenticated">>)))
            /\ UNCHANGED <<cur, calls>>
       ELSE \E o \in GetUserOutcomes(inp[r].token) :
              LET res == get_current_user(inp[r].token, o)
              IN  /\ Log(r, "auth.get_user", o)
                  /\ IF res.raised
                     THEN Finish(r, Failure(res)) /\ UNCHANGED cur
                     ELSE /\ Goto(r, BodyPc(kind[r]))
                          /\ cur' = [cur EXCEPT ![r] = res.value]
    /\ UNCHANGED <<store, kind, inp, args, nreq, catvars>>

\* POST /signup
signup_with_email(r) ==
    /\ pc[r] = "signup"
    /\ \E o \in SessionOutcomes :
         LET u == UserOfEmail(inp[r].email)
         IN  /\ Log(r, "auth.sign_up", o)
             /\ IF IsOk(o)
                THEN /\ cur' = [cur EXCEPT ![r] = Dict(UserDump(u))]
                     /\ args' = [args EXCEPT ![r] =
                            [user_id      |-> u,
                             email        |-> inp[r].email,
                             display_name |-> inp[r].display_name,
                             avatar_url   |-> None,
                             session      |-> SessionDump(u, o)]]
                     /\ Goto(r, "create_check")
                ELSE /\ Finish(r, Failure(signup_error(o)))
                     /\ UNCHANGED <<cur, args>>
    /\ UNCHANGED <<store, kind, inp, nreq, catvars>>

\* The response of the route that called create_user_profile.
CreateCaller(r, res) ==
    IF res.raised THEN Failure(res)
    ELSE IF kind[r] = "signup"
    THEN Success([user    |-> cur[r],
                  session |-> args[r].session,
                  profile |-> res.value,
                  message |-> "Account created successfully"])
    ELSE Success([user    |-> cur[r],
                  profile |-> res.value,
                  message |-> "OAuth authentication successful"])

\* create_user_profile called from POST /signup or POST /oauth/callback:
\* the existence check, then the insert.
create_user_profile(r) ==
    /\ \/ /\ pc[r] = "create_check"
          /\ \E o \in StoreOutcomes :
               LET chk == create_user_profile_check(store, args[r], o)
               IN  /\ Log(r, "select", o)
                   /\ IF chk.done
                      THEN Finish(r, CreateCaller(r, Return(chk.value)))
                      ELSE Goto(r, "create_insert")
          /\ UNCHANGED store
       \/ /\ pc[r] = "create_insert"
          /\ \E o \in StoreOutcomes :
               LET ins == create_user_profile_insert(store, args[r], o)
                   out == IF o = "raise" THEN "raise"
                          ELSE IF InsertRejected(store, profile_data(args[r]))
                          THEN "rejected" ELSE "ok"
               IN  /\ Log(r, "insert", out)
                   /\ store' = ins.table
                   /\ Finish(r, CreateCaller(r, ins.res))
    /\ UNCHANGED <<kind, inp, cur, args, nreq, catvars>>

\* POST /login
login_with_email(r) ==
    /\ \/ /\ pc[r] = "login"
          /\ \E o \in SignInOutcomes(inp[r].password) :
               LET u == UserOfEmail(inp[r].email)
               IN  /\ Log(r, "auth.sign_in_with_password", o)
                   /\ IF IsOk(o)
                      THEN /\ cur' = [cur EXCEPT ![r] = Dict(UserDump(u))]
                           /\ args' = [args EXCEPT ![r] =
                                  [session |-> SessionDump(u, o)]]
                           /\ Goto(r, "login_fetch")
                      ELSE /\ Finish(r, Failure(login_error(o)))
                           /\ UNCHANGED <<cur, args>>
       \/ /\ pc[r] = "login_fetch"
          /\ \E o \in StoreOutcomes :
               LET profile == get_user_profile(store, cur[r].v.id, o)
               IN  /\ Log(r, "select", o)
                   /\ Finish(r, Success([user    |-> cur[r],
                                         session |-> args[r].session,
                                         profile |-> profile,
                                         message |-> "Logged in successfully"]))
          /\ UNCHANGED <<cur, args>>
    /\ UNCHANGED <<store, kind, inp, nreq, catvars>>

\* Faulty variant of logout: a failed sign-out is swallowed and answered
\* as a success.
logout_swallowing(r) ==
    /\ pc[r] = "logout"
    /\ \E o \in {"ok", "raise"} :
         /\ Log(r, "auth.sign_out", o)
         /\ Finish(r, Success([message |-> "Successfully logged out"]))
    /\ UNCHANGED <<store, kind, inp, cur, args, nreq, catvars>>

\* POST /logout
logout(r) ==
    /\ pc[r] = "logout"
    /\ \E o \in {"ok", "raise"} :
         /\ Log(r, "auth.sign_out", o)
         /\ IF o = "ok"
            THEN Finish(r, Success([message |-> "Successfully logged out"]))
            ELSE Finish(r, Failure(Raise(400, <<IdpErrorText>>)))
    /\ UNCHANGED <<store, kind, inp, cur, args, nreq, catvars>>

\* POST /oauth/callback
oauth_callback(r) ==
    /\ pc[r] = "oauth_fetch"
    /\ \E o \in StoreOutcomes :
         LET user_id       == cur[r].v.id
             email         == cur[r].v.email
             user_metadata == cur[r].v.user_metadata
             profile       == get_user_profile(store, user_id, o)
         IN  /\ Log(r, "select", o)
             /\ IF ~Truthy(profile)
                THEN /\ args' = [args EXCEPT ![r] =
                            [user_id      |-> user_id,
                             email        |-> email,
                             display_name |-> PyOr(DictGet(user_metadata, "full_name"),
                                                   Str(LocalPart(email))),
                             avatar_url   |-> DictGet(user_metadata, "avatar_url")]]
                     /\ Goto(r, "create_check")
                ELSE /\ Finish(r, Success([user    |-> cur[r],
                                           profile |-> profile,
                                           message |-> "OAuth authentication successful"]))
                     /\ UNCHANGED args
    /\ UNCHANGED <<store, kind, inp, cur, nreq, catvars>>

\* GET /me
get_current_user_profile(r) ==
    /\ pc[r] = "me_fetch"
    /\ \E o \in StoreOutcomes :
         LET profile == get_user_profile(store, cur[r].v.id, o)
         IN  /\ Log(r, "select", o)
             /\ IF ~Truthy(profile)
                THEN Finish(r, Failure(Raise(404, <<"Profile not found">>)))
                ELSE Finish(r, Success([user |-> cur[r], profile |-> profile]))
    /\ UNCHANGED <<store, kind, inp, cur, args, nreq, catvars>>

\* Faulty variant of update_current_user_profile: the row to update is
\* named by the request body's id when it has one.
update_current_user_profile_body_id(r) ==
    /\ pc[r] = "patch"
    /\ LET updates == model_dump_exclude_none(ProfileUpdateRequest(inp[r].json))
           user_id == IF "id" \in DOMAIN inp[r].json
                      THEN inp[r].json.id.v ELSE cur[r].v.id
       IN  IF DOMAIN updates = {}
           THEN /\ Finish(r, Failure(Raise(400, <<"No fields to update">>)))
                /\ UNCHANGED <<store, calls>>
           ELSE \E o \in StoreOutcomes :
                  LET upd == update_user_profile(store, user_id, updates, o)
                  IN  /\ IF upd.called
                         THEN Log(r, "update", o)
                         ELSE UNCHANGED calls
                      /\ store' = upd.table
                      /\ IF upd.res.raised
                         THEN Finish(r, Failure(upd.res))
                         ELSE Finish(r, Success(
                                  [profile |-> upd.res.value,
                                   message |-> "Profile updated successfully"]))
    /\ UNCHANGED <<kind, inp, cur, args, nreq, catvars>>

\* PATCH /me
update_current_user_profile(r) ==
    /\ pc[r] = "patch"
    /\ LET updates == model_dump_exclude_none(ProfileUpdateRequest(inp[r].json))
       IN  IF DOMAIN updates = {}
           THEN /\ Finish(r, Failure(Raise(400, <<"No fields to update">>)))
                /\ UNCHANGED <<store, calls>>
           ELSE \E o \in StoreOutcomes :
                  LET upd == update_user_profile(store, cur[r].v.id, updates, o)
                  IN  /\ IF upd.called
                         THEN Log(r, "update", o)
                         ELSE UNCHANGED calls
                      /\ store' = upd.table
                      /\ IF upd.res.raised
                         THEN Finish(r, Failure(upd.res))
                         ELSE Finish(r, Success(
                                  [profile |-> upd.res.value,
                                   message |-> "Profile updated successfully"]))
    /\ UNCHANGED <<kind, inp, cur, args, nreq, catvars>>

\* GET /onboarding-status
check_onboarding_status(r) ==
    /\ pc[r] = "onboarding"
    /\ \E o \in StoreOutcomes :
         LET profile == get_user_profile(store, cur[r].v.id, o)
         IN  /\ Log(r, "select", o)
             /\ args' = [args EXCEPT ![r] = [profile |-> profile]]
             /\ Finish(r, Success(onboarding_status(profile)))
    /\ UNCHANGED <<store, kind, inp, cur, nreq, catvars>>

\* A call of update_user_profile(user_id, updates) by another caller than
\* PATCH /me.
UpdateCall(r) ==
    /\ pc[r] = "update"
    /\ \E o \in StoreOutcomes :
         LET upd == update_user_profile(store, inp[r].user_id, inp[r].updates, o)
         IN  /\ IF upd.called
                THEN Log(r, "update", o)
                ELSE UNCHANGED calls
             /\ store' = upd.table
             /\ IF upd.res.raised
                THEN Finish(r, Failure(upd.res))
                ELSE Finish(r, Success([value |-> upd.res.value]))
    /\ UNCHANGED <<kind, inp, cur, args, nreq, catvars>>

\* A route depending on get_current_user_optional.
OptionalCall(r) ==
    /\ pc[r] = "optional"
    /\ \E o \in IF inp[r].token = NoToken THEN {"none"}
                 ELSE GetUserOutcomes(inp[r].token) :
         LET res == get_current_user_optional(inp[r].token, o)
         IN  /\ IF inp[r].token = NoToken
                THEN UNCHANGED calls
                ELSE Log(r, "auth.get_user", o)
             /\ IF res.raised
                THEN Finish(r, Failure(res))
                ELSE Finish(r, Success([value |-> res.value]))
    /\ UNCHANGED <<store, kind, inp, cur, args, nreq, catvars>>

Next ==
    \E r \in Slots :
        \/ Start(r)
        \/ Authenticate(r)
        \/ signup_with_email(r)
        \/ create_user_profile(r)
        \/ login_with_email(r)
        \/ logout(r)
        \/ oauth_callback(r)
        \/ get_current_user_profile(r)
        \/ update_current_user_profile(r)
        \/ check_onboarding_status(r)
        \/ UpdateCall(r)
        \/ OptionalCall(r)

Spec == Init /\ [][Next]_vars

TypeOK ==
    /\ nreq \in 0..MaxRequests
    /\ \A r \in Slots : resp[r].status \in {0, 200, 400, 401, 403, 404, 500}

-----------------------------------------------------------------------------
(* categories.py                                                           *)

CATEGORIES ==
  [
    top       |-> <<"t-shirt", "shirt", "blouse", "sweater", "hoodie", "tank-top", "polo", "cardigan">>,
    bottom    |-> <<"jeans", "pants", "shorts", "skirt", "leggings", "joggers", "dress-pants">>,
    outerwear |-> <<"jacket", "coat", "blazer", "vest", "parka", "windbreaker", "trench-coat">>,
    footwear  |-> <<"sneakers", "boots", "sandals", "heels", "flats", "loafers", "dress-shoes">>,
    fullbody  |-> <<"dress", "jumpsuit", "romper", "overalls", "coveralls", "suit">>,
    accessory |-> <<"hat", "scarf", "belt", "bag", "sunglasses", "jewelry", "watch", "tie">>,
    misc      |-> <<"underwear", "socks", "swimwear", "sleepwear", "other">>
  ]

\* x in seq
InSeq(x, seq) == \E i \in 1..Len(seq) : seq[i] = x

\* get_all_categories()
get_all_categories == DOMAIN CATEGORIES

\* is_valid_category(category, subcategory=None)
is_valid_category(cat, sub) ==
    IF cat \notin DOMAIN CATEGORIES THEN FALSE
    ELSE IF Truthy(sub) /\ ~InSeq(sub.v, CATEGORIES[cat]) THEN FALSE
    ELSE TRUE

AllSubcategories ==
    UNION {{CATEGORIES[c][i] : i \in 1..Len(CATEGORIES[c])} : c \in DOMAIN CATEGORIES}

CategoryInputs == DOMAIN CATEGORIES \cup {"", "hat", "shoes"}
SubcategoryInputs ==
    {None, Str(""), Str("invalid"), Str("top")} \cup {Str(x) : x \in AllSubcategories}

InitCat ==
    /\ store = <<>>
    /\ kind = [r \in Slots |-> "idle"]
    /\ pc = [r \in Slots |-> "idle"]
    /\ inp = [r \in Slots |-> EmptyDict]
    /\ cur = [r \in Slots |-> None]
    /\ args = [r \in Slots |-> NoArgs]
    /\ resp = [r \in Slots |-> Pending]
    /\ calls = [r \in Slots |-> <<>>]
    /\ nreq = 0
    /\ category \in CategoryInputs
    /\ subcategory \in SubcategoryInputs
    /\ valid = None

\* A call is_valid_category(category, subcategory).
ValidateCategory ==
    /\ valid = None
    /\ valid' = Bool(is_valid_category(category, subcategory))
    /\ UNCHANGED <<category, subcategory, reqvars>>

NextCat == ValidateCategory

SpecCat == InitCat /\ [][NextCat]_vars

-----------------------------------------------------------------------------
(* Properties                                                              *)

Done(r) == pc[r] = "done"
OpsOf(c) == {c[i].op : i \in 1..Len(c)}
LastCall(c) == c[Len(c)]
IsSet(x) == x \notin {None, Str("")}

\* C1: create_user_profile is idempotent.  Every call that returns, returns
\* the one record the store holds for the user id; a call that returns
\* while a record already exists (the second of two calls in sequence)
\* returns that stored record whatever display name or avatar it was
\* given, has issued no insert, and leaves the table as it was.
C1_Returns(r) ==
    /\ pc[r] \in {"create_check", "create_insert"}
    /\ pc'[r] = "done"
    /\ resp'[r].status = 200

C1_CreateIdempotent ==
    [][\A r \in Slots :
         C1_Returns(r) =>
           LET u == args[r].user_id
           IN  /\ Len(Select(store', u)) = 1
               /\ resp'[r].body.profile = Dict(Select(store', u)[1])
               /\ HasRow(store, u) =>
                     /\ store' = store
                     /\ resp'[r].body.profile = Dict(Select(store, u)[1])
                     /\ "insert" \notin OpsOf(calls'[r])]_vars

\* A second signup for a user got the stored profile back, not the display
\* name it passed, and issued no insert.
C1_Witness ==
    \E r \in Slots :
        /\ Done(r) /\ kind[r] = "signup" /\ resp[r].status = 200
        /\ "insert" \notin OpsOf(calls[r])
        /\ inp[r].display_name = Str("Sam")
        /\ resp[r].body.profile.v.display_name # Str("Sam")

\* C2: update_user_profile with a non-empty payload of keys outside the
\* allowlist, and PATCH /me with every field null or absent, answer 400
\* and issue no store call: the table is the same before and after.
OnlyDisallowed(d) == DOMAIN d # {} /\ (DOMAIN d) \cap allowed_fields = {}
AllNull(json) == \A f \in ProfileUpdateRequestFields : DictGet(json, f) = None

C2_NoFieldsNoWrite ==
    [][\A r \in Slots :
         (\/ pc[r] = "update" /\ pc'[r] # pc[r] /\ OnlyDisallowed(inp[r].updates)
          \/ pc[r] = "patch" /\ pc'[r] # pc[r] /\ AllNull(inp[r].json))
         => /\ pc'[r] = "done"
            /\ resp'[r].status = 400
            /\ resp'[r].detail \in {<<"No valid fields to update">>,
                                     <<"No fields to update">>}
            /\ store' = store
            /\ calls'[r] = calls[r]]_vars

C2_Witness ==
    \E r, q \in Slots :
        /\ Done(r) /\ kind[r] = "update" /\ OnlyDisallowed(inp[r].updates)
        /\ resp[r].status = 400 /\ "update" \notin OpsOf(calls[r])
        /\ Done(q) /\ kind[q] = "patch_me" /\ AllNull(inp[q].json)
        /\ inp[q].json # EmptyDict
        /\ resp[q].detail = <<"No fields to update">>
        /\ OpsOf(calls[q]) = {"auth.get_user"}

\* C3: an update whose payload mixes allowlisted and other keys writes
\* exactly the allowlisted keys, to the rows of that user id: every other
\* column of every row (id and email among them) keeps its value, and the
\* other keys cause no error (the call never answers 400).
Mixed(d) ==
    /\ (DOMAIN d) \cap allowed_fields # {}
    /\ (DOMAIN d) \ allowed_fields # {}

C3_Payload(r) == IF kind[r] = "update" THEN inp[r].updates ELSE inp[r].json
C3_Target(r) == IF kind[r] = "update" THEN inp[r].user_id ELSE cur[r].v.id

C3_OnlyAllowlistedWritten ==
    [][\A r \in Slots :
         (pc[r] \in {"update", "patch"} /\ pc'[r] = "done" /\ Mixed(C3_Payload(r)))
         => LET d    == C3_Payload(r)
                keys == (DOMAIN d) \cap allowed_fields
                u    == C3_Target(r)
                ok   == resp'[r].status = 200
            IN  /\ resp'[r].status \in {200, 500}
                /\ resp'[r].status = 500 => LastCall(calls'[r]).out = "raise"
                /\ Len(store') = Len(store)
                /\ \A i \in 1..Len(store) : \A c \in Columns :
                      store'[i][c] =
                        IF ok /\ store[i].id = Str(u) /\ c \in keys
                        THEN d[c] ELSE store[i][c]]_vars

\* update_user_profile("u1", {display_name: "Sam", id: "u2"}) succeeded:
\* the row of u1 has the new display name and is still the row of u1.
C3_Witness ==
    \E r \in Slots :
        /\ Done(r) /\ kind[r] = "update" /\ inp[r].user_id = "u1"
        /\ inp[r].updates = [display_name |-> Str("Sam"), id |-> Str("u2")]
        /\ resp[r].status = 200
        /\ HasRow(store, "u1")
        /\ Select(store, "u1")[1].display_name = Str("Sam")
        /\ Select(store, "u1")[1].email = Str("alice@x.io")
        /\ ~HasRow(store, "u2")

\* A bearer route's request whose token did not resolve to a user: the
\* token is missing, or the identity service raised or reported no user.
Unverified(r) ==
    /\ kind[r] \in BearerRoutes
    /\ pc[r] # "auth"
    /\ inp[r].token = NoToken \/ calls[r][1].out # "ok"

NoEffects(r) ==
    /\ Done(r)
    /\ cur[r] = None
    /\ resp[r].body = EmptyDict
    /\ OpsOf(calls[r]) \subseteq {"auth.get_user"}

C5_NoRowNeverSucceeds ==
    \A r \in Slots :
        /\ (Done(r) /\ kind[r] = "patch_me" /\ resp[r].status = 200)
             => resp[r].body.profile # None
        /\ (Done(r) /\ kind[r] = "update" /\ resp[r].status = 200)
             => resp[r].body.value # None

\* C6: a login whose sign-in raised or returned no user is answered 401
\* with one of two fixed messages, none of which carries the identity
\* service's (or the store's) error text; a login issues only the sign-in
\* and a profile read, and no step of it changes the table.
GenericLoginDetails == {<<"Invalid credentials">>, <<"Invalid email or password">>}

C6_Generic ==
    \A r \in Slots :
        (Done(r) /\ kind[r] = "login") =>
            /\ ~IsOk(calls[r][1].out) => resp[r].status = 401
            /\ resp[r].status # 200 =>
                  /\ resp[r].status = 401
                  /\ resp[r].detail \in GenericLoginDetails
                  /\ \A i \in 1..Len(resp[r].detail) :
                        resp[r].detail[i] \notin {IdpErrorText, StoreErrorText}
            /\ OpsOf(calls[r]) \subseteq {"auth.sign_in_with_password", "select"}

C6_LoginStep(r) ==
    /\ pc[r] \in {"login", "login_fetch"}
    /\ pc'[r] # pc[r]

C6_LoginGenericNoCreate ==
    /\ []C6_Generic
    /\ [][\A r \in Slots : C6_LoginStep(r) => store' = store]_vars

\* A login for which the identity service raised, answered with the
\* generic message.
C6_Witness ==
    \E r \in Slots :
        /\ Done(r) /\ kind[r] = "login"
        /\ calls[r] = <<[op |-> "auth.sign_in_with_password", out |-> "raise"]>>
        /\ resp[r].status = 401
        /\ resp[r].detail = <<"Invalid email or password">>

C8_Expected(cat, sub) ==
    /\ cat \in DOMAIN CATEGORIES
    /\ sub = None \/ InSeq(sub.v, CATEGORIES[cat])

C8_ValidCategory ==
    valid # None => valid = Bool(C8_Expected(category, subcategory))

\* C9: get_current_user_optional never raises.  It returns the identity
\* exactly when a token was given and the identity service resolved it to
\* a user, and None for a missing token, an answer without a user and an
\* error of the identity service.
C9_OptionalNeverFails ==
    \A r \in Slots :
        (Done(r) /\ kind[r] = "optional") =>
            /\ resp[r].status = 200
            /\ IF inp[r].token # NoToken /\ calls[r][1].out = "ok"
               THEN /\ TokenValid(inp[r].token)
                    /\ resp[r].body.value = Dict(UserDump(UserOfToken(inp[r].token)))
               ELSE resp[r].body.value = None
            /\ inp[r].token = NoToken => calls[r] = <<>>

\* The identity service raised on a user's token: the result is None.
C9_Witness ==
    \E r \in Slots :
        /\ Done(r) /\ kind[r] = "optional" /\ inp[r].token = "tok-u2"
        /\ calls[r] = <<[op |-> "auth.get_user", out |-> "raise"]>>
        /\ resp[r].status = 200 /\ resp[r].body.value = None

\* C10: under every interleaving of create_user_profile calls the table
\* holds at most one row per user id, and a call whose insert the store
\* rejects for the key fails with 500 and returns no profile.
C10_AtMostOneLoserFails ==
    /\ \A u \in Users : Len(Select(store, u)) <= 1
    /\ \A r \in Slots :
         (calls[r] # <<>> /\ LastCall(calls[r]) = [op |-> "insert", out |-> "rejected"])
            => /\ Done(r)
               /\ resp[r].status = 500
               /\ resp[r].body = EmptyDict

\* Two calls raced: both saw no profile, one inserted and returned it, the
\* other had its insert rejected and failed.
C10_Witness ==
    \E r, q \in Slots :
        /\ r # q /\ Done(r) /\ Done(q)
        /\ kind[r] = "signup" /\ kind[q] = "oauth_callback"
        /\ Len(calls[r]) >= 2 /\ Len(calls[q]) >= 2
        /\ LastCall(calls[r]).op = "insert" /\ LastCall(calls[q]).op = "insert"
        /\ calls[r][Len(calls[r]) - 1] = [op |-> "select", out |-> "ok"]
        /\ calls[q][Len(calls[q]) - 1] = [op |-> "select", out |-> "ok"]
        /\ args[r].user_id = args[q].user_id
        /\ {resp[r].status, resp[q].status} = {200, 500}
        /\ Len(Select(store, args[r].user_id)) = 1

\* The routes of the router (update_user_profile and
\* get_current_user_optional called on their own are not route handlers).
RouteKinds == {"signup", "login"} \cup BearerRoutes

\* A remote call that failed: it raised, or the store rejected it.
Failed(c) == c.out \in {"raise", "rejected"}

\* C11 as stated: a route handler issues each remote call at most once per
\* request, and a failed remote call is the request's last call and ends
\* it with an error response.
C11_FailFast ==
    \A r \in Slots :
        kind[r] \in RouteKinds =>
            /\ \A i, j \in 1..Len(calls[r]) :
                  calls[r][i].op = calls[r][j].op => i = j
            /\ \A i \in 1..Len(calls[r]) :
                  Failed(calls[r][i]) =>
                     /\ i = Len(calls[r])
                     /\ Done(r)
                     /\ resp[r].status \notin {0, 200}

\* C11: no remote call is repeated, except that oauth_callback reads the
\* profile a second time (inside create_user_profile) right after a first
\* read that yielded no profile.  A failed identity call, insert or update
\* is the request's last call and ends it with an error response.  A
\* failed profile read does not fail the request: it counts as an absent
\* profile, so login and onboarding-status answer 200 (profile None, all
\* steps false), GET /me answers 404, and signup and oauth_callback go on
\* to their next call.
C11_FailFastExceptReads ==
    \A r \in Slots :
        kind[r] \in RouteKinds =>
            /\ \A i, j \in 1..Len(calls[r]) :
                  (i < j /\ calls[r][i].op = calls[r][j].op) =>
                     /\ kind[r] = "oauth_callback"
                     /\ calls[r][i].op = "select"
                     /\ i = 2 /\ j = 3
            /\ \A i \in 1..Len(calls[r]) :
                  LET c == calls[r][i]
                  IN  /\ (Failed(c) /\ c.op # "select") =>
                           /\ i = Len(calls[r])
                           /\ Done(r)
                           /\ resp[r].status \notin {0, 200}
                      /\ (Failed(c) /\ c.op = "select") =>
                           CASE kind[r] = "login" ->
                                  /\ Done(r) /\ resp[r].status = 200
                                  /\ resp[r].body.profile = None
                             [] kind[r] = "onboarding" ->
                                  /\ Done(r) /\ resp[r].status = 200
                                  /\ ~resp[r].body.completed
                                  /\ "profile" \notin DOMAIN resp[r].body
                             [] kind[r] = "get_me" ->
                                  /\ Done(r) /\ resp[r].status = 404
                             [] OTHER ->
                                  /\ kind[r] \in {"signup", "oauth_callback"}
                                  /\ i = Len(calls[r]) =>
                                        pc[r] \in {"create_check", "create_insert"}
                                  /\ i < Len(calls[r]) =>
                                        calls[r][i + 1].op \in {"select", "insert"}

\* A login whose profile read failed was answered 200 without a profile,
\* and a signup whose insert raised was answered 500.
C11_Witness ==
    \E r, q \in Slots :
        /\ Done(r) /\ kind[r] = "login"
        /\ Len(calls[r]) = 2
        /\ calls[r][2] = [op |-> "select", out |-> "raise"]
        /\ resp[r].status = 200 /\ resp[r].body.profile = None
        /\ Done(q) /\ kind[q] = "signup"
        /\ calls[q] # <<>>
        /\ LastCall(calls[q]) = [op |-> "insert", out |-> "raise"]
        /\ resp[q].status = 500

\* C12: a step of a route's request inserts or changes rows of one user
\* only, the user its verified identity (bearer token, or the sign-up's
\* answer) resolved to; the rows of every other user are as before,
\* whatever ids the request body names.
C12_RouteStep(r) ==
    /\ kind[r] \in RouteKinds
    /\ pc[r] \notin {"idle", "done"}
    /\ pc'[r] # pc[r]

C12_WritesOwnProfileOnly ==
    [][\A r \in Slots :
         C12_RouteStep(r) =>
            \A u \in Users :
               Select(store', u) # Select(store, u) =>
                  /\ cur[r] # None
                  /\ cur[r].v.id = u]_vars

\* u1 sent PATCH /me with a body naming the id of u2, who has a profile:
\* the request succeeded and the profile of u2 is not the one sent.
C12_Witness ==
    \E r \in Slots :
        /\ Done(r) /\ kind[r] = "patch_me" /\ inp[r].token = "tok-u1"
        /\ inp[r].json = [display_name |-> Str("Sam"), id |-> Str("u2")]
        /\ resp[r].status = 200
        /\ HasRow(store, "u2")
        /\ Select(store, "u2")[1].display_name = Str("bob")

====
